---- MODULE Spec2Model ----
(***************************************************************************)
(* Model of compress_int (src/src/lib.rs).                                 *)
(*                                                                         *)
(* compress_int is generic over T: PrimInt + Unsigned + Into<u32>, i.e.    *)
(* u8, u16 and u32.  A value of width W is modelled as the set of its set  *)
(* bit positions, a subset of 0..W-1 (bit 0 is the low bit), so that u32   *)
(* values above 2^31 are represented exactly and every shift, OR and       *)
(* decrement is the machine operation on W bits.  bit_count and the other  *)
(* u32 locals (high_bit_index, shift) are small naturals.                  *)
(***************************************************************************)
EXTENDS Integers, FiniteSets, Sequences, TLC

VARIABLES width, bit_count, input, pc, ret,
          input2, ret2,
          i, sum,
          b_prefix, b_shift, b_k, err_even, err_odd, pat_even, pat_odd

vars == <<width, bit_count, input, pc, ret, input2, ret2, i, sum,
          b_prefix, b_shift, b_k, err_even, err_odd, pat_even, pat_odd>>

callVars == <<width, bit_count, input, ret>>
pairVars == <<input2, ret2>>
biasVars == <<i, sum>>
bucketVars == <<b_prefix, b_shift, b_k, err_even, err_odd, pat_even, pat_odd>>

(***************************************************************************)
(* Bounds of the model.                                                    *)
(***************************************************************************)
\* bit_count ranges over 0..MaxBitCount; above every width so that
\* bit_count >= W is covered for u32.
MaxBitCount == 33
\* every value below 2^SmallBits is an input (all of u8 when SmallBits = 8)
SmallBits == 8
\* every MantBits-bit pattern, shifted to every position, is an input
MantBits == 3
\* the pair runs use every value below 2^PairBits, and the same patterns
\* moved to the top of the word
PairBits == 5
\* bit counts 1..PairMaxBitCount (and W-1, W, W+1) in the pair runs
PairMaxBitCount == 4
\* adjacent buckets of up to 2^MaxBucketShift values each
MaxBucketShift == 3
\* low prefix bits enumerated exhaustively in the bucket runs
BucketMidBits == 2

(***************************************************************************)
(* Program constants.                                                      *)
(***************************************************************************)
\* the widths of the types T admits (u8, u16, u32)
Widths == {8, 16, 32}
\* tests::test_bias
N == 1024
BiasBitCount == 2
BiasWidth == 32
\* eps = 0.000_001 = 1 / EpsInverse
EpsInverse == 1000000

(***************************************************************************)
(* Fixed-width unsigned integers as sets of bit positions.                 *)
(***************************************************************************)
RECURSIVE Pow2(_)
Pow2(n) == IF n <= 0 THEN 1 ELSE 2 * Pow2(n - 1)

MaxOf(S) == CHOOSE x \in S : \A y \in S : y <= x

MinOf(S) == CHOOSE x \in S : \A y \in S : x <= y

\* the number a bit set denotes (for values below 2^31)
RECURSIVE ToNat(_)
ToNat(v) == IF v = {} THEN 0
            ELSE LET b == MaxOf(v) IN Pow2(b) + ToNat(v \ {b})

\* the bit set of a literal
FromNat(n) == {b \in 0..30 : (n \div Pow2(b)) % 2 = 1}

\* T::one()
one == {0}

\* input.leading_zeros() on a W-bit value
leading_zeros(W, v) == IF v = {} THEN W ELSE W - 1 - MaxOf(v)

\* v >> s on a W-bit value (s < W)
Shr(v, s) == {b - s : b \in {c \in v : c >= s}}

\* v << s on a W-bit value (s < W): bits moved past the top are dropped
Shl(W, v, s) == {b + s : b \in {c \in v : c + s < W}}

\* a | b
BitOr(a, b) == a \cup b

\* v - T::one() for v /= 0: borrow through the trailing zeros
SubOne(v) == LET m == MinOf(v) IN (v \ {m}) \cup (0..(m - 1))

\* (x & 0b1) of a value converted into u32 (zero extension keeps bit 0)
LowBit(v) == IF 0 \in v THEN 1 ELSE 0

\* a <= b as unsigned numbers
LeU(a, b) == LET d == (a \ b) \cup (b \ a) IN d = {} \/ MaxOf(d) \in b

\* a - b as a signed number, for values that differ only below bit 31
Diff(a, b) == LET d == (a \ b) \cup (b \ a)
              IN IF d = {} THEN 0
                 ELSE ToNat({c \in a : c <= MaxOf(d)})
                      - ToNat({c \in b : c <= MaxOf(d)})

(***************************************************************************)
(* compress_int.                                                           *)
(***************************************************************************)
\* what a call leaves behind: how it ended, the value returned, the branch
\* taken and the locals of the compression branch
Ret(outcome, branch, value, hbi, shift, prefix, suffix, selector, lost) ==
    [outcome |-> outcome, branch |-> branch, value |-> value,
     high_bit_index |-> hbi, shift |-> shift, prefix |-> prefix,
     suffix |-> suffix, selector |-> selector, lost |-> lost]

NoRet == Ret("none", "none", {}, 0, 0, {}, {}, 0, FALSE)

\* assert!(bit_count > 0) failed
Panicked == Ret("panicked", "assert", {}, 0, 0, {}, {}, 0, FALSE)

\* an arithmetic step left the range of its type (u32 subtraction below 0,
\* shift amount >= W, T subtraction below 0): a panic in a build with
\* overflow checks, a wrapped value otherwise
Overflow(hbi, shift) == Ret("overflow", "compress", {}, hbi, shift, {}, {}, 0, FALSE)

\* the assertion as bit_count >= 0, which a u32 always satisfies
AssertBitCount_NonNegative(bc) == bc >= 0

\* assert!(bit_count > 0)
AssertBitCount(bc) == bc > 0

\* input_bit_count - input.leading_zeros()
high_bit_index(W, v) == W - leading_zeros(W, v)

\* the passthrough test as high_bit_index < bit_count
PassThrough_Strict(hbi, bc) == hbi < bc

\* if high_bit_index <= bit_count { return input; }
PassThrough(hbi, bc) == hbi <= bc

\* the prefix taken one bit too long
Prefix_OffByOne(v, shift) == Shr(v, shift - 1)

\* input >> shift
Prefix(v, shift) == Shr(v, shift)

\* the suffix high bit placed at shift instead of shift - 1
PatternA_OffByOne(W, shift) == Shl(W, one, shift)

\* T::one() << (shift - 1)
PatternA(W, shift) == Shl(W, one, shift - 1)

\* the selector without the bit_count == 1 case
Selector_PrefixOnly(bc, shift, prefix) == LowBit(prefix)

\* the selector always taken from shift
Selector_ShiftOnly(bc, shift, prefix) == shift % 2

\* no alternation: always the first scheme
Selector_Never(bc, shift, prefix) == 0

\* (if bit_count == 1 { shift } else { prefix.into() }) & 0b1
Selector(bc, shift, prefix) == IF bc = 1 THEN shift % 2 ELSE LowBit(prefix)

\* the prefix not moved back into place
Combine_Unshifted(W, prefix, shift, suffix) == BitOr(prefix, suffix)

\* (prefix << shift) | suffix
Combine(W, prefix, shift, suffix) == BitOr(Shl(W, prefix, shift), suffix)

\* the body of compress_int after the assertion
CompressBody(W, v, bc) ==
    LET hbi == high_bit_index(W, v) IN
    IF PassThrough(hbi, bc)
    THEN Ret("returned", "passthrough", v, hbi, 0, {}, {}, 0, FALSE)
    ELSE IF hbi < bc THEN Overflow(hbi, 0)
    ELSE LET shift == hbi - bc IN
    IF shift >= W \/ shift < 1 THEN Overflow(hbi, shift)
    ELSE LET prefix == Prefix(v, shift)
             a == PatternA(W, shift)
             selector == Selector(bc, shift, prefix)
         IN IF selector = 1 /\ a = {} THEN Overflow(hbi, shift)
            ELSE LET suffix == IF selector = 1 THEN SubOne(a) ELSE a
                     lost == \E b \in prefix : b + shift >= W
                 IN Ret("returned", "compress",
                        Combine(W, prefix, shift, suffix),
                        hbi, shift, prefix, suffix, selector, lost)

\* compress_int(input, bit_count) for T of width W
compress_int(W, v, bc) ==
    IF AssertBitCount(bc) THEN CompressBody(W, v, bc) ELSE Panicked

(***************************************************************************)
(* Inputs.                                                                 *)
(***************************************************************************)
Min2(a, b) == IF a <= b THEN a ELSE b

\* every value below 2^SmallBits, and every MantBits-bit pattern at every
\* position of the word, over a tail of zeros, of ones, or of a single one
Tails(k) == {{}, 0..(k - 1), {0} \cap (0..(k - 1))}

Inputs(W) ==
    SUBSET (0..(Min2(SmallBits, W) - 1))
    \cup UNION { { Shl(W, m, k) \cup t : m \in SUBSET (0..(MantBits - 1)),
                                          t \in Tails(k) } :
                 k \in 0..(W - 1) }

BitCounts == 0..MaxBitCount

(***************************************************************************)
(* One call of compress_int.                                               *)
(***************************************************************************)
IdlePair == input2 = {} /\ ret2 = NoRet
IdleBias == i = 0 /\ sum = 0
IdleBucket == /\ b_prefix = {} /\ b_shift = 0 /\ b_k = 0
              /\ err_even = 0 /\ err_odd = 0 /\ pat_even = {} /\ pat_odd = {}

Init ==
    /\ width \in Widths
    /\ bit_count \in BitCounts
    /\ input \in Inputs(width)
    /\ pc = "entry"
    /\ ret = NoRet
    /\ IdlePair /\ IdleBias /\ IdleBucket

\* line 42: the assertion, before anything else is computed
CheckBitCount ==
    /\ pc = "entry"
    /\ IF AssertBitCount(bit_count)
       THEN pc' = "body" /\ ret' = ret
       ELSE pc' = "panicked" /\ ret' = Panicked
    /\ UNCHANGED <<width, bit_count, input, pairVars, biasVars, bucketVars>>

\* lines 45-69
Body ==
    /\ pc = "body"
    /\ ret' = CompressBody(width, input, bit_count)
    /\ pc' = ret'.outcome
    /\ UNCHANGED <<width, bit_count, input, pairVars, biasVars, bucketVars>>

Next == CheckBitCount \/ Body

Spec == Init /\ [][Next]_vars

(***************************************************************************)
(* Two calls with the same bit_count on values of the same type.           *)
(***************************************************************************)
\* every value below 2^PairBits, and every PairBits-bit pattern at the top
\* of the word over a tail of zeros or of ones
PairInputs(W) ==
    SUBSET (0..(PairBits - 1))
    \cup { Shl(W, m, W - PairBits) \cup t :
             m \in SUBSET (0..(PairBits - 1)),
             t \in {{}, 0..(W - PairBits - 1)} }

PairBitCounts(W) == (1..PairMaxBitCount) \cup {W - 1, W, W + 1}

InitPair ==
    /\ width \in Widths
    /\ bit_count \in PairBitCounts(width)
    /\ input \in PairInputs(width)
    /\ input2 \in {v \in PairInputs(width) : LeU(input, v)}
    /\ pc = "pair_entry"
    /\ ret = NoRet /\ ret2 = NoRet
    /\ IdleBias /\ IdleBucket

PairCall ==
    /\ pc = "pair_entry"
    /\ ret' = compress_int(width, input, bit_count)
    /\ ret2' = compress_int(width, input2, bit_count)
    /\ pc' = "pair_done"
    /\ UNCHANGED <<width, bit_count, input, input2, biasVars, bucketVars>>

NextPair == PairCall

SpecPair == InitPair /\ [][NextPair]_vars

(***************************************************************************)
(* tests::test_bias.                                                       *)
(***************************************************************************)
\* assert_relative_eq!(sum / n, (n - 1) / 2, epsilon = eps) on the total s:
\* |s/n - (n-1)/2| <= eps, i.e. |2s - n(n-1)| <= 2n/EpsInverse
WithinEps(s) ==
    LET d == 2 * s - N * (N - 1)
        ad == IF d < 0 THEN -d ELSE d
    IN ad <= 2 * N /\ ad * EpsInverse <= 2 * N

InitBias ==
    /\ width = BiasWidth
    /\ bit_count = BiasBitCount
    /\ input = {} /\ ret = NoRet
    /\ i = 0 /\ sum = 0
    /\ pc = "bias_loop"
    /\ IdlePair /\ IdleBucket

\* for i in 0..n { sum += compress_int(i, bit_count) as f64; }
BiasStep ==
    /\ pc = "bias_loop"
    /\ i < N
    /\ input' = FromNat(i)
    /\ ret' = compress_int(width, input', bit_count)
    /\ IF ret'.outcome = "returned"
       THEN /\ sum' = sum + ToNat(ret'.value)
            /\ i' = i + 1
            /\ pc' = "bias_loop"
       ELSE /\ pc' = ret'.outcome
            /\ UNCHANGED <<i, sum>>
    /\ UNCHANGED <<width, bit_count, pairVars, bucketVars>>

\* sum /= n; assert_relative_eq!(sum, expect, epsilon = eps)
BiasCheck ==
    /\ pc = "bias_loop"
    /\ i = N
    /\ pc' = IF WithinEps(sum) THEN "bias_passed" ELSE "bias_failed"
    /\ UNCHANGED <<callVars, pairVars, biasVars, bucketVars>>

NextBias == BiasStep \/ BiasCheck

SpecBias == InitBias /\ [][NextBias]_vars

(***************************************************************************)
(* compress_int over the values of two adjacent buckets.                   *)
(***************************************************************************)
\* the suffix scheme of a result: "A" is 0b1000.., "B" is 0b0111..
PatternOf(r) ==
    IF r.branch # "compress" THEN "none"
    ELSE IF r.suffix = {r.shift - 1} THEN "A"
    ELSE IF r.suffix = 0..(r.shift - 2) THEN "B"
    ELSE "other"

\* even prefixes of bc bits: high bit set, low bit clear, the low
\* BucketMidBits bits in between arbitrary, the rest all clear or all set
EvenPrefixes(bc) ==
    { {bc - 1} \cup m \cup t :
        m \in SUBSET (1..Min2(bc - 2, BucketMidBits)),
        t \in {{}, (BucketMidBits + 1)..(bc - 2)} }

InitBucket ==
    /\ width \in Widths
    /\ bit_count \in 2..(width - 1)
    /\ b_shift \in 1..Min2(MaxBucketShift, width - bit_count)
    /\ b_prefix \in EvenPrefixes(bit_count)
    /\ b_k = 0 /\ err_even = 0 /\ err_odd = 0
    /\ pat_even = {} /\ pat_odd = {}
    /\ input = {} /\ ret = NoRet
    /\ pc = "bucket_loop"
    /\ IdlePair /\ IdleBias

\* the b_k-th value of the buckets of b_prefix and b_prefix + 1 is
\* compressed and its signed error added to the bucket's total
BucketStep ==
    /\ pc = "bucket_loop"
    /\ b_k < Pow2(b_shift + 1)
    /\ LET odd == b_k >= Pow2(b_shift)
           p == IF odd THEN b_prefix \cup {0} ELSE b_prefix
           v == Shl(width, p, b_shift) \cup FromNat(b_k % Pow2(b_shift))
           r == compress_int(width, v, bit_count)
       IN /\ input' = v
          /\ ret' = r
          /\ IF r.outcome = "returned"
             THEN /\ err_even' = IF odd THEN err_even ELSE err_even + Diff(r.value, v)
                  /\ err_odd' = IF odd THEN err_odd + Diff(r.value, v) ELSE err_odd
                  /\ pat_even' = IF odd THEN pat_even ELSE pat_even \cup {PatternOf(r)}
                  /\ pat_odd' = IF odd THEN pat_odd \cup {PatternOf(r)} ELSE pat_odd
                  /\ b_k' = b_k + 1
                  /\ pc' = IF b_k + 1 = Pow2(b_shift + 1)
                           THEN "bucket_done" ELSE "bucket_loop"
             ELSE /\ pc' = r.outcome
                  /\ UNCHANGED <<b_k, err_even, err_odd, pat_even, pat_odd>>
    /\ UNCHANGED <<width, bit_count, b_prefix, b_shift, pairVars, biasVars>>

NextBucket == BucketStep

SpecBucket == InitBucket /\ [][NextBucket]_vars

(***************************************************************************)
(* Properties of one call.                                                 *)
(***************************************************************************)
\* 1-indexed position of the highest set bit, 0 for the value zero
Hbi(v) == IF v = {} THEN 0 ELSE MaxOf(v) + 1

Finished == pc \notin {"entry", "body"}

\* the call is one to which compression applies
Applies == bit_count >= 1 /\ Hbi(input) > bit_count

\* C1 (passthrough): with bit_count >= 1, a value whose high bit index is at
\* most bit_count (zero, every value below 2^bit_count, every value when
\* bit_count >= W) is returned unchanged.
C1_Passthrough ==
    (Finished /\ bit_count >= 1 /\ Hbi(input) <= bit_count)
        => /\ pc = "returned"
           /\ ret.value = input
           /\ ret.high_bit_index = Hbi(input)
           /\ (bit_count = 3 /\ input \in {FromNat(n) : n \in 0..7}
                 => ToNat(ret.value) = ToNat(input))

C1_Witness ==
    /\ pc = "returned" /\ input # {} /\ Hbi(input) = bit_count
    /\ ret.branch = "passthrough" /\ ret.value = input

\* C2 (precondition enforcement): with bit_count = 0 the call fails at the
\* assertion for every value; the body is never entered and nothing is
\* returned.
C2_PreconditionEnforced ==
    bit_count = 0
        => /\ pc \in {"entry", "panicked"}
           /\ ret.outcome \in {"none", "panicked"}
           /\ (pc = "panicked" => ret = Panicked)

C2_Witness == bit_count = 0 /\ pc = "panicked" /\ input = {} /\ ret = Panicked

\* C3 (compressed result): when compression applies, with
\* shift = high_bit_index - bit_count and prefix = v >> shift, the result is
\* (prefix << shift) + suffix, suffix = 2^(shift-1) - 1 when the selector is 1
\* and 2^(shift-1) when it is 0; the selector is the low bit of prefix for
\* bit_count >= 2 and the low bit of shift for bit_count = 1.
\* With bit_count = 3: 67 -> 72, 8..9 -> 9, 10..11 -> 10, 16..19 -> 18.
C3_CompressedResult ==
    (Finished /\ Applies)
        => LET h == Hbi(input)
               shift == h - bit_count
               sel == IF bit_count >= 2
                      THEN (IF shift \in input THEN 1 ELSE 0)
                      ELSE shift % 2
           IN /\ pc = "returned"
              /\ ret.shift = shift
              /\ ret.value = {b \in input : b >= shift}
                             \cup (IF sel = 1 THEN 0..(shift - 2) ELSE {shift - 1})
              /\ h <= 30 =>
                   LET v == ToNat(input)
                       prefix == v \div Pow2(shift)
                       suffix == Pow2(shift - 1) - (IF bit_count >= 2
                                                    THEN prefix % 2 ELSE shift % 2)
                   IN /\ ToNat(ret.prefix) = prefix
                      /\ ToNat(ret.suffix) = suffix
                      /\ ToNat(ret.value) = prefix * Pow2(shift) + suffix
                      /\ (bit_count = 3 /\ v = 67 => ToNat(ret.value) = 72)
                      /\ (bit_count = 3 /\ v \in 8..9 => ToNat(ret.value) = 9)
                      /\ (bit_count = 3 /\ v \in 10..11 => ToNat(ret.value) = 10)
                      /\ (bit_count = 3 /\ v \in 16..19 => ToNat(ret.value) = 18)

C3_Witness ==
    /\ pc = "returned" /\ bit_count = 1 /\ input = FromNat(67)
    /\ ret.shift = 6 /\ ret.selector = 0 /\ ToNat(ret.value) = 96

\* C5 (prefix preservation): when compression applies, r >> shift = v >> shift,
\* so r has the high bit index of v and lies in the bucket
\* [prefix << shift, (prefix + 1) << shift) of v.
C5_PrefixPreserved ==
    (Finished /\ Applies)
        => LET shift == Hbi(input) - bit_count
               bottom == {b \in input : b >= shift}
               top == bottom \cup (0..(shift - 1))
           IN /\ pc = "returned"
              /\ Shr(ret.value, shift) = Shr(input, shift)
              /\ Cardinality({b \in ret.value : b >= shift})
                   = Cardinality({b \in input : b >= shift})
              /\ Hbi(ret.value) = Hbi(input)
              /\ LeU(bottom, ret.value) /\ LeU(ret.value, top)

C5_Witness ==
    /\ pc = "returned" /\ ret.branch = "compress" /\ ret.value # input
    /\ bit_count >= 2 /\ ret.shift >= 2
    /\ Shr(ret.value, ret.shift) = Shr(input, ret.shift)

\* C8 (no other failure): with bit_count >= 1 (also bit_count >= W) the call
\* returns a W-bit value; in the compression branch 1 <= shift <= W - 1, the
\* suffix is at least 1 before the decrement, and the final shift drops no
\* bit of the prefix.
C8_NoFailure ==
    (Finished /\ bit_count >= 1)
        => /\ pc = "returned"
           /\ ret.outcome = "returned"
           /\ ret.value \subseteq 0..(width - 1)
           /\ ret.branch = "compress"
                => /\ 1 <= ret.shift /\ ret.shift <= width - 1
                   /\ ret.suffix \subseteq 0..(ret.shift - 1)
                   /\ (ret.selector = 0 => ret.suffix # {})
                   /\ (ret.selector = 1 => ret.suffix = 0..(ret.shift - 2))
                   /\ ~ret.lost
                   /\ ret.prefix \subseteq 0..(bit_count - 1)

C8_Witness ==
    /\ pc = "returned" /\ width = 32 /\ ret.branch = "compress"
    /\ ret.shift = 31 /\ ret.selector = 1 /\ ~ret.lost

(***************************************************************************)
(* Properties of two calls (SpecPair).                                     *)
(***************************************************************************)
\* compression applies to both values of the pair
BothApply == bit_count >= 1 /\ Hbi(input) > bit_count /\ Hbi(input2) > bit_count

\* the top bit_count bits of a value, right-aligned
TopBits(v) == Shr(v, Hbi(v) - bit_count)

\* C6 (bucket collapse): two values with the same high bit index and the same
\* prefix have the same result, whatever their discarded low bits.
C6_BucketCollapse ==
    (pc = "pair_done" /\ BothApply /\ Hbi(input) = Hbi(input2)
                      /\ TopBits(input) = TopBits(input2))
        => /\ ret.outcome = "returned" /\ ret2.outcome = "returned"
           /\ ret.value = ret2.value

C6_Witness ==
    /\ pc = "pair_done" /\ BothApply /\ input # input2
    /\ Hbi(input) = Hbi(input2) /\ TopBits(input) = TopBits(input2)
    /\ ret.branch = "compress" /\ ret.value = ret2.value
    /\ ret.value # input /\ ret2.value # input2

\* C7 as stated: for every bit_count >= 1, bit_count = 1 included, two values
\* with the same prefix receive the same suffix pattern, however many bits
\* are discarded.
C7_SamePrefixSamePattern ==
    (pc = "pair_done" /\ BothApply /\ TopBits(input) = TopBits(input2))
        => PatternOf(ret) = PatternOf(ret2)

\* C7 (amended): for bit_count >= 2 two values with the same prefix receive
\* the same suffix pattern, however many bits are discarded; for
\* bit_count = 1 (the prefix is always 1) they receive the same pattern
\* exactly when their shifts have the same parity.
C7_PatternByPrefixOrShift ==
    (pc = "pair_done" /\ BothApply /\ TopBits(input) = TopBits(input2))
        => /\ PatternOf(ret) \in {"A", "B"} /\ PatternOf(ret2) \in {"A", "B"}
           /\ bit_count >= 2 => PatternOf(ret) = PatternOf(ret2)
           /\ bit_count = 1 =>
                ((PatternOf(ret) = PatternOf(ret2))
                   <=> ((Hbi(input) - 1) % 2 = (Hbi(input2) - 1) % 2))

C7_Witness ==
    /\ pc = "pair_done" /\ BothApply /\ bit_count >= 2
    /\ TopBits(input) = TopBits(input2)
    /\ (ret.shift + ret2.shift) % 2 = 1
    /\ PatternOf(ret) = "B" /\ PatternOf(ret2) = "B"

\* C10 (monotonicity): for a fixed bit_count >= 1, a <= b implies
\* compress_int(a) <= compress_int(b).
C10_Monotone ==
    (pc = "pair_done" /\ bit_count >= 1 /\ LeU(input, input2))
        => /\ ret.outcome = "returned" /\ ret2.outcome = "returned"
           /\ LeU(ret.value, ret2.value)

C10_Witness ==
    /\ pc = "pair_done" /\ LeU(input, input2)
    /\ ret.branch = "compress" /\ ret2.branch = "compress"
    /\ Hbi(input) = Hbi(input2) /\ TopBits(input) # TopBits(input2)
    /\ ret.selector = 0 /\ ret2.selector = 1
    /\ ret.value # ret2.value /\ LeU(ret.value, ret2.value)

(***************************************************************************)
(* Properties of tests::test_bias (SpecBias).                              *)
(***************************************************************************)
\* C4 (bias reduction): for bit_count = 2 and n = 1024 the mean of
\* compress_int(i, 2) over 0..n-1 is (n-1)/2 within 1e-6: the total is
\* exactly n(n-1)/2 = 523776, the only integer total within the tolerance.
C4_BiasReduction ==
    /\ pc \in {"bias_loop", "bias_passed"}
    /\ pc = "bias_passed"
         => /\ i = N
            /\ sum = 523776
            /\ 2 * sum = N * (N - 1)
            /\ \A s \in (sum - 4)..(sum + 4) : WithinEps(s) => s = sum

C4_Witness == pc = "bias_passed" /\ i = 1024 /\ sum = 523776 /\ ToNat(ret.value) = 895

(***************************************************************************)
(* Properties of two adjacent buckets (SpecBucket).                        *)
(***************************************************************************)
\* C9 (adjacent-bucket error cancellation): for 2 <= bit_count < W,
\* 1 <= shift <= W - bit_count and an even prefix p, the bucket of p gets
\* pattern A and that of p + 1 pattern B, and the signed errors over the
\* 2^(shift+1) values are +2^(shift-1) and -2^(shift-1), zero in total.
C9_AdjacentBucketsCancel ==
    /\ pc \in {"bucket_loop", "bucket_done"}
    /\ pc = "bucket_done"
         => /\ b_k = Pow2(b_shift + 1)
            /\ pat_even = {"A"} /\ pat_odd = {"B"}
            /\ err_even = Pow2(b_shift - 1)
            /\ err_odd = -Pow2(b_shift - 1)
            /\ err_even + err_odd = 0

C9_Witness ==
    /\ pc = "bucket_done" /\ width = 32 /\ bit_count = 29 /\ b_shift = 3
    /\ err_even = 4 /\ err_odd = -4

====
